---- MODULE Spec2Model ----
(***************************************************************************)
(* Model of tinygrad/renderer/assembly.py: uops_to_asm (the peephole       *)
(* pre-transform sweep and the single-pass lowering loop) with the         *)
(* PTXLanguage backend, plus the semantics of the PTX instructions the     *)
(* backend emits, so that the emitted kernel can be run.                   *)
(*                                                                         *)
(* The UOp graph is an arena `nodes` (node id = index) and the ordered     *)
(* list `uops` of node ids (UOpGraph.uops).  Emitted text is kept as       *)
(* records of tokens: one record per line, one record per operand.         *)
(* Only scalar dtypes (dtype.count = 1) are modelled; GEP and the vector   *)
(* branches of STORE/LOAD/CONST/DEFINE_ACC/CAST are left out.              *)
(***************************************************************************)
EXTENDS Integers, Sequences, FiniteSets, TLC

VARIABLES
  nodes,     \* arena of UOps: nodes[id] = [uop, dtype, vin, arg]
  uops,      \* UOpGraph.uops: the ordered list of node ids
  pc,        \* "build" | "sweep" | "lower" | "ret" | "done" | "exec" | "halt" | "fail"
  run,       \* number of uops_to_asm invocations started on this graph
  it,        \* index (0-based) of the next element of the running `for u in uops`
  seen,      \* seen: Set[UOp]
  replace,   \* replace: Dict[UOp,UOp], as the sequence of its items <<o, n>>
  kernel,    \* kernel: List[str], each entry [u, lines] (u: the uop being lowered)
  bufs,      \* bufs
  c,         \* c: DefaultDict[str,int], as the sequence of its items [cat, ty, cnt]
  r,         \* r: Dict[UOp, str]
  c_label,   \* c_label, as a function category -> count
  r_label,   \* r_label: Dict[UOp, str]
  err,       \* the exception that aborted the invocation ("" if none)
  out,       \* the texts returned by the invocations so far
  hist,      \* history of the running invocation (graph at entry, visits, ssa names, writes of r)
  mach       \* the machine running the emitted kernel: [ip, regs, mem, arg] and what it
             \* did: stlog (the stores made), trace (the lines control passed)

vars == <<nodes, uops, pc, run, it, seen, replace, kernel, bufs, c, r, c_label, r_label,
          err, out, hist, mach>>

\* ---------------------------------------------------------------- bounds
\* number of operation nodes the linearizer adds after the leaves
MaxOps == 2
\* loop starts and bounds, and stored values, range over 0..MaxVal
MaxVal == 2

\* ---------------------------------------------------------------- sequences

\* list.index(x): 0-based position of the first occurrence
Index(s, x) == (CHOOSE i \in 1..Len(s) : s[i] = x /\ \A j \in 1..(i-1) : s[j] # x) - 1

\* list.insert(i, x), i 0-based
Insert(s, i, x) == SubSeq(s, 1, i) \o <<x>> \o SubSeq(s, i+1, Len(s))

Range(s) == {s[i] : i \in 1..Len(s)}

RECURSIVE Flatten(_)
Flatten(ss) == IF ss = <<>> THEN <<>> ELSE Head(ss) \o Flatten(Tail(ss))

\* d[k] = v on a dict kept as a function
Put(d, k, v) == [x \in (DOMAIN d) \cup {k} |-> IF x = k THEN v ELSE d[x]]

\* ---------------------------------------------------------------- dtypes
PtrDTypes == {"ptr_bool", "ptr_int"}
IsPtr(dt) == dt \in PtrDTypes
Base(dt) == CASE dt = "ptr_bool" -> "bool" [] dt = "ptr_int" -> "int" [] OTHER -> dt

\* DType.itemsize (a PtrDType has the itemsize of its element type)
itemsize(dt) ==
  CASE Base(dt) \in {"bool", "uint8"} -> 1
    [] Base(dt) = "half" -> 2
    [] Base(dt) \in {"int", "float"} -> 4
    [] OTHER -> 8

is_float(dt) == dt \in {"half", "float"}
is_int(dt) == dt \in {"uint8", "int", "int16", "uint64"}
is_unsigned(dt) == dt \in {"uint8", "uint64"}

\* PTXLanguage.types
types(dt) ==
  CASE Base(dt) = "bool" -> "pred"
    [] Base(dt) = "uint8" -> "u16"
    [] Base(dt) = "int16" -> "s16"
    [] Base(dt) = "int" -> "s32"
    [] Base(dt) = "uint64" -> "u64"
    [] Base(dt) = "half" -> "f16"
    [] OTHER -> "f32"

\* "b" + name[1:]
Bits(name) ==
  CASE name = "pred" -> "bred"
    [] name \in {"u16", "s16", "f16"} -> "b16"
    [] name \in {"s32", "f32"} -> "b32"
    [] OTHER -> "b64"

\* PTXLanguage.mem_type
mem_type(dt) == IF itemsize(dt) = 1 THEN "s8" ELSE IF dt = "half" THEN "b16" ELSE types(dt)

supports_half == {"NEG", "EXP2", "ADD", "SUB", "MUL", "MAX", "CMPLT", "WHERE"}
const_requires_mov == {"half", "bool"}

\* ---------------------------------------------------------------- text tokens
NoOp == [k |-> "none", cat |-> "", ty |-> "", n |-> 0, sfx |-> ""]
\* "%{cat}_{ty}_{n}"
Reg(cat, ty, n) == [k |-> "reg", cat |-> cat, ty |-> ty, n |-> n, sfx |-> ""]
\* "%{cat}_{ty}_<{cnt}>": the declaration of a register group
RegGroup(cat, ty, cnt) == [k |-> "regs", cat |-> cat, ty |-> ty, n |-> cnt, sfx |-> ""]
\* "%{name}"
NamedReg(name) == [k |-> "nreg", cat |-> name, ty |-> "", n |-> 0, sfx |-> ""]
\* a bare symbol: a parameter name, a built-in register, a shared array
Sym(name) == [k |-> "sym", cat |-> name, ty |-> "", n |-> 0, sfx |-> ""]
\* "{label_prefix}{cat}_{n}"
Lab(cat, n) == [k |-> "lab", cat |-> cat, ty |-> "", n |-> n, sfx |-> ""]
Sfx(o, s) == [o EXCEPT !.sfx = s]
Lit(n) == [k |-> "imm", cat |-> "", ty |-> "", n |-> n, sfx |-> ""]

\* render_val: the literal of x in dtype (the hex encoding of a float is kept as
\* its value under the encoding's prefix)
render_val(x, dtype) ==
  IF is_float(dtype)
    THEN [k |-> "imm", cat |-> "", ty |-> "", n |-> x, sfx |-> IF dtype = "half" THEN "0x" ELSE "0f"]
    ELSE [k |-> "imm", cat |-> "", ty |-> "", n |-> x, sfx |-> IF is_unsigned(dtype) THEN "U" ELSE ""]

\* one line of text: "@{g} {op}{ss}.{ty} a1, a2, ...;"
Line(op, ty, a) == [op |-> op, ss |-> "", ty |-> ty, g |-> NoOp, gneg |-> FALSE, a |-> a]
Guarded(l, g, neg) == [l EXCEPT !.g = g, !.gneg = neg]
WithSS(l, ss) == [l EXCEPT !.ss = ss]
LabelLine(lab) == Line("label", "", <<lab>>)

\* ---------------------------------------------------------------- graph
UOp(uop, dtype, vin, arg) == [uop |-> uop, dtype |-> dtype, vin |-> vin, arg |-> arg]

\* UOpGraph.add(uop, dtype, vin, arg, insert_before): a new node at that position
add(g, uop, dtype, vin, arg, insert_before) ==
  LET id == Len(g.nodes) + 1
  IN [g |-> [g EXCEPT !.nodes = Append(@, UOp(uop, dtype, vin, arg)),
                      !.uops = Insert(@, insert_before, id)],
      new |-> id]

\* the record a rewrite leaves in the history: which rule inserted node `id` for which root
Note(g, ids, rule, root) ==
  [g EXCEPT !.by = [x \in (DOMAIN g.by) \cup ids |->
                      IF x \in ids THEN [rule |-> rule, root |-> root] ELSE g.by[x]]]

\* ptr_ar(root)
ptr_ar(g0, root) ==
  LET base == g0.nodes[g0.nodes[root].vin[1]]
      g1 == [g0 EXCEPT !.nodes[root].arg = IF base.uop = "DEFINE_LOCAL" THEN ".shared" ELSE ".global"]
      big == itemsize(base.dtype) > 1
      a1 == add(g1, "CONST", "int", <<>>, itemsize(base.dtype), Index(g1.uops, root))
      a2 == add(a1.g, "ALU", "int", <<g1.nodes[root].vin[2], a1.new>>, "MUL", Index(a1.g.uops, root))
      g2 == IF big THEN a2.g ELSE g1
      ptr == IF big THEN a2.new ELSE g1.nodes[root].vin[2]
      vin == g2.nodes[root].vin
      a3 == add(g2, "CONST", "int", <<>>, 0, Index(g2.uops, root))
      a4 == add(a3.g, "CAST", "uint64", <<ptr>>, "", Index(a3.g.uops, root))
      a5 == add(a4.g, "ALU", "uint64", <<vin[1], a4.new>>, "ADD", Index(a4.g.uops, root))
      new == (IF big THEN {a1.new, a2.new} ELSE {})
  IN IF g2.nodes[ptr].uop = "CONST"
       THEN Note([g2 EXCEPT !.nodes[root].vin = <<vin[1], ptr>> \o SubSeq(vin, 3, Len(vin))],
                 new, "ptr_ar", root)
       ELSE Note([a5.g EXCEPT !.nodes[root].vin = <<a5.new, a3.new>> \o SubSeq(vin, 3, Len(vin))],
                 new \cup {a3.new, a4.new, a5.new}, "ptr_ar", root)

\* eq_rep that, like lt_rep, returns no replacement
eq_rep_noret(g0, root) ==
  LET g1 == [g0 EXCEPT !.nodes[root].arg = "XOR"]
      a == add(g1, "ALU", "bool", <<root>>, "NEG", Index(g1.uops, root) + 1)
  IN [g |-> Note(a.g, {a.new}, "eq_rep", root), ret |-> 0]

\* eq_rep(root, x, y)
eq_rep(g0, root) ==
  LET g1 == [g0 EXCEPT !.nodes[root].arg = "XOR"]
      a == add(g1, "ALU", "bool", <<root>>, "NEG", Index(g1.uops, root) + 1)
  IN [g |-> Note(a.g, {a.new}, "eq_rep", root), ret |-> a.new]

\* lt_rep that inserts the negation after u
lt_rep_after(g0, u) ==
  LET a == add(g0, "ALU", "bool", <<g0.nodes[u].vin[1]>>, "NEG", Index(g0.uops, u) + 1)
  IN [g |-> Note([a.g EXCEPT !.nodes[u].vin = <<a.new, g0.nodes[u].vin[2]>>,
                             !.nodes[u].arg = "MUL"], {a.new}, "lt_rep", u),
      ret |-> 0]

\* lt_rep(x, y): works on u, the node the sweep is at
lt_rep(g0, u) ==
  LET a == add(g0, "ALU", "bool", <<g0.nodes[u].vin[1]>>, "NEG", Index(g0.uops, u))
  IN [g |-> Note([a.g EXCEPT !.nodes[u].vin = <<a.new, g0.nodes[u].vin[2]>>,
                             !.nodes[u].arg = "MUL"], {a.new}, "lt_rep", u),
      ret |-> 0]

\* ld_rep(root, x, y)
ld_rep(g0, root) ==
  LET g1 == [g0 EXCEPT !.nodes[root].dtype = "uint8"]
      a == add(g1, "CAST", "bool", <<root>>, "", Index(g1.uops, root) + 1)
  IN [g |-> ptr_ar(Note(a.g, {a.new}, "ld_rep", root), root), ret |-> a.new]

\* gate_rep(root, x, y, z, k)
gate_rep(g0, root) ==
  LET v == g0.nodes[root].vin
      a == add(g0, "CAST", "uint8", <<v[4]>>, "", Index(g0.uops, root))
  IN ld_rep(Note([a.g EXCEPT !.nodes[root].vin = <<v[1], v[2], v[3], a.new>>],
                 {a.new}, "gate_rep", root), root)

\* matcher: the first pattern of the list that matches u, "" if none
\* (a tuple pattern for vin matches only a vin of its length, a dict pattern any vin)
MatchRule(g, u) ==
  LET n == g.nodes[u]
  IN CASE n.uop = "ALU" /\ n.arg = "CMPEQ" /\ Len(n.vin) = 2 /\ g.nodes[n.vin[1]].dtype = "bool" -> "eq_rep"
       [] n.uop = "ALU" /\ n.arg = "CMPLT" /\ Len(n.vin) = 2 /\ g.nodes[n.vin[1]].dtype = "bool" -> "lt_rep"
       [] n.uop = "LOAD" /\ n.dtype = "bool" /\ Len(n.vin) = 4 -> "gate_rep"
       [] n.uop = "LOAD" /\ n.dtype = "bool" /\ Len(n.vin) = 2 -> "ld_rep"
       [] n.uop = "STORE" -> "ptr_ar"
       [] n.uop = "LOAD" -> "ptr_ar"
       [] OTHER -> ""

\* matcher.rewrite(u): the graph after the rewrite and the value returned (0: None)
rewrite(g, u) ==
  LET rule == MatchRule(g, u)
  IN CASE rule = "eq_rep" -> eq_rep(g, u)
       [] rule = "lt_rep" -> lt_rep(g, u)
       [] rule = "gate_rep" -> gate_rep(g, u)
       [] rule = "ld_rep" -> ld_rep(g, u)
       [] rule = "ptr_ar" -> [g |-> ptr_ar(g, u), ret |-> 0]
       [] OTHER -> [g |-> g, ret |-> 0]

\* one pass over replace.items() (lines 97-99)
RECURSIVE Substitute(_, _, _)
Substitute(vin, u, items) ==
  IF items = <<>> THEN vin
  ELSE LET o == Head(items)[1]
           n == Head(items)[2]
           v == IF o \in Range(vin) /\ u # n
                  THEN [i \in 1..Len(vin) |-> IF vin[i] = o THEN n ELSE vin[i]]
                  ELSE vin
       IN Substitute(v, u, Tail(items))

\* the sweep that forgets the operands replaced earlier
Substituted_skip(N, u, items) == N[u].vin

\* u.vin once the operands of u that were replaced earlier in the sweep are substituted
Substituted(N, u, items) == Substitute(N[u].vin, u, items)

\* ---------------------------------------------------------------- PTXLanguage
gid == <<"ctaid.x", "ctaid.y", "ctaid.z">>
lid == <<"tid.x", "tid.y", "tid.z">>

\* PTXLanguage.asm_for_op[op](d, *operands, dt, name)
asm_for_op(op, d, o, dt, name) ==
  CASE op = "NEG" -> IF name = "pred" THEN Line("not", "pred", <<d, o[1]>>) ELSE Line("neg", name, <<d, o[1]>>)
    [] op = "ADD" -> Line(IF name = "pred" THEN "or" ELSE "add", name, <<d, o[1], o[2]>>)
    [] op = "SUB" -> Line("sub", name, <<d, o[1], o[2]>>)
    [] op = "MUL" -> Line(IF dt = "bool" THEN "and" ELSE IF is_int(dt) THEN "mul.lo" ELSE "mul", name, <<d, o[1], o[2]>>)
    [] op = "XOR" -> IF name = "pred" THEN Line("xor", "pred", <<d, o[1], o[2]>>)
                                       ELSE Line("xor", Bits(name), <<d, o[1], o[2]>>)
    [] op = "DIV" -> Line(IF is_float(dt) THEN "div.approx" ELSE "div", name, <<d, o[1], o[2]>>)
    [] op = "MAX" -> Line("max", name, <<d, o[1], o[2]>>)
    [] op = "MOD" -> Line("rem", name, <<d, o[1], o[2]>>)
    [] op = "CMPLT" -> Line("setp.lt", name, <<d, o[1], o[2]>>)
    [] OTHER -> Line("setp.eq", name, <<d, o[1], o[2]>>)

\* render_const(x, dtype, mov): the lines that put x in mov, or the literal when mov is None
render_const(x, dtype, mov) ==
  IF dtype = "bool" THEN <<Line("setp.ne", "s16", <<mov, render_val(x, dtype), Lit(0)>>)>>
  ELSE IF mov # NoOp THEN <<Line("mov", Bits(types(dtype)), <<mov, render_val(x, dtype)>>)>>
  ELSE render_val(x, dtype)

render_local(dest, name, size, dtype) ==
  <<Line(".shared", "b8", <<Sym(name), Lit(size * itemsize(dtype))>>), Line("mov", "u64", <<dest, Sym(name)>>)>>

render_loop(idx, start, label) == <<Line("mov", "u32", <<idx, start>>), LabelLine(label)>>

render_bra(b1, pred, b2) ==
  IF pred # NoOp
    THEN <<Guarded(Line("bra", "", <<b1>>), pred, FALSE), Guarded(Line("bra", "", <<b2>>), pred, TRUE)>>
    ELSE <<Line("bra", "", <<b1>>)>>

\* render_load: `assert dtype is not dtypes.bool` is render_load_ok
render_load_ok(dtype) == dtype # "bool"

render_load(loc, dest, dtype, gate, alt, ss, offset) ==
  IF gate # NoOp
    THEN <<Guarded(WithSS(Line("ld", mem_type(dtype), <<dest, loc, Lit(offset)>>), ss), gate, FALSE),
           Guarded(Line("mov", Bits(types(dtype)), <<dest, alt>>), gate, TRUE)>>
    ELSE <<WithSS(Line("ld", mem_type(dtype), <<dest, loc, Lit(offset)>>), ss)>>

render_cast(d, a, dtype, atype, bitcast) ==
  IF bitcast THEN <<Line("mov", Bits(types(dtype)), <<d, a>>)>>
  ELSE IF atype = "bool"
    THEN <<Line("selp", Bits(types(dtype)), <<d, render_val(1, dtype), render_val(0, dtype), a>>)>>
  ELSE IF dtype = "bool"
    THEN <<Line("setp.ne", Bits(types(atype)), <<d, a, render_const(0, atype, NoOp)>>)>>
  ELSE LET rnd == IF is_int(dtype) /\ is_float(atype) THEN "cvt.rzi"
                  ELSE IF is_float(dtype) /\ (itemsize(dtype) < itemsize(atype) \/ is_int(atype) \/ atype = "bool")
                    THEN "cvt.rn" ELSE "cvt"
       IN <<[Line(rnd, types(dtype), <<d, a>>) EXCEPT !.ss = types(atype)]>>

render_store(loc, val, dtype, gate, ss, offset) ==
  LET st(v) == IF gate # NoOp
                 THEN Guarded(WithSS(Line("st", mem_type(dtype), <<loc, Lit(offset), v>>), ss), gate, FALSE)
                 ELSE WithSS(Line("st", mem_type(dtype), <<loc, Lit(offset), v>>), ss)
  IN IF dtype = "bool"
       THEN <<Line(".reg", "s16", <<Sfx(val, "_cast")>>)>>
            \o render_cast(Sfx(val, "_cast"), val, "int16", dtype, FALSE)
            \o <<st(Sfx(val, "_cast"))>>
       ELSE <<st(val)>>

\* render_kernel: the register declarations, the emitted lines in order, ret; and
\* the parameter list (the formatting pass only changes white space)
render_kernel(k, b, regs) ==
  [params |-> [i \in 1..Len(b) |->
                 [name |-> b[i].name, ty |-> IF IsPtr(b[i].dtype) THEN "u64" ELSE types(b[i].dtype)]],
   lines |-> [i \in 1..Len(regs) |-> Line(".reg", regs[i].ty, <<RegGroup(regs[i].cat, regs[i].ty, regs[i].cnt)>>)]
             \o Flatten([i \in 1..Len(k) |-> k[i].lines])
             \o <<Line("ret", "", <<>>)>>]

\* ---------------------------------------------------------------- uops_to_asm: helpers
\* the size (in bytes) a DEFINE_LOCAL may not exceed
LocalCeiling == 49152

\* kk(*s), called while u is lowered
kk(st, u, lines) == [st EXCEPT !.kernel = Append(@, [u |-> u, lines |-> lines])]

\* c[prefix]
Count(cs, cat, ty) ==
  IF \E i \in 1..Len(cs) : cs[i].cat = cat /\ cs[i].ty = ty
    THEN (CHOOSE e \in Range(cs) : e.cat = cat /\ e.ty = ty).cnt
    ELSE 0

\* c[prefix] = 1 where c[prefix] += 1 is meant
Bump_reset(cs, cat, ty) ==
  IF \E i \in 1..Len(cs) : cs[i].cat = cat /\ cs[i].ty = ty
    THEN [i \in 1..Len(cs) |-> IF cs[i].cat = cat /\ cs[i].ty = ty THEN [cs[i] EXCEPT !.cnt = 1] ELSE cs[i]]
    ELSE Append(cs, [cat |-> cat, ty |-> ty, cnt |-> 1])

\* c[prefix] += 1
Bump(cs, cat, ty) ==
  IF \E i \in 1..Len(cs) : cs[i].cat = cat /\ cs[i].ty = ty
    THEN [i \in 1..Len(cs) |-> IF cs[i].cat = cat /\ cs[i].ty = ty THEN [cs[i] EXCEPT !.cnt = @ + 1] ELSE cs[i]]
    ELSE Append(cs, [cat |-> cat, ty |-> ty, cnt |-> 1])

\* the name ssa forms from the counter of its prefix after the increment
SsaName(cat, ty, cnt) == Reg(cat, ty, cnt - 1)

\* r[u] = v
SetR(st, u, v) == [st EXCEPT !.r = Put(@, u, v), !.rlog = Append(@, <<u, v>>)]

\* ssa(u, prefix, dtype): u = 0 stands for None; ty is the type part of the prefix
ssa(st, u, cat, ty) ==
  LET s1 == [st EXCEPT !.c = Bump(@, cat, ty)]
      name == SsaName(cat, ty, Count(s1.c, cat, ty))
      s2 == [s1 EXCEPT !.names = Append(@, name)]
  IN [st |-> IF u # 0 THEN SetR(s2, u, name) ELSE s2, out |-> name]

\* ssa_label(u, prefix)
ssa_label(st, u, prefix) ==
  LET n == IF prefix \in DOMAIN st.c_label THEN st.c_label[prefix] + 1 ELSE 1
      lab == Lab(prefix, n - 1)
  IN [st |-> [st EXCEPT !.c_label = Put(@, prefix, n), !.r_label = Put(@, u, lab)], out |-> lab]

\* const(x, dtype, mov), called while w is lowered
const(st, w, x, dtype, mov) ==
  IF mov \/ dtype \in const_requires_mov
    THEN LET a == ssa(st, 0, "const", types(dtype))
         IN [st |-> kk(a.st, w, render_const(x, dtype, a.out)), out |-> a.out]
    ELSE [st |-> st, out |-> render_const(x, dtype, NoOp)]

\* cast(a, dtype, atype, bitcast, u), called while w is lowered
cast(st, w, a, dtype, atype, bitcast, u) ==
  IF atype = dtype
    THEN [st |-> IF u # 0 THEN SetR(st, u, a) ELSE st, out |-> a]
    ELSE LET s == ssa(st, u, "cast", types(dtype))
         IN [st |-> kk(s.st, w, render_cast(s.out, a, dtype, atype, bitcast)), out |-> s.out]

\* ---------------------------------------------------------------- uops_to_asm: lowering
\* the nodes whose entry of r the lowering of u reads
Reads(N, u) ==
  LET n == N[u]
      v == n.vin
  IN CASE n.uop \in {"IF", "LOOP", "CAST", "BITCAST"} -> {v[1]}
       [] n.uop = "ENDLOOP" -> {v[1], N[v[1]].vin[2]}
       [] n.uop = "STORE" -> {v[1], v[3]} \cup (IF Len(v) > 3 THEN {v[4]} ELSE {})
       [] n.uop = "LOAD" -> {v[1]} \cup (IF Len(v) > 3 THEN {v[3], v[4]} ELSE {})
       [] n.uop = "ALU" -> Range(v)
       [] n.uop = "PHI" -> {v[1], v[2]}
       [] OTHER -> {}

\* the nodes whose entry of r_label the lowering of u reads
LabelReads(N, u) == IF N[u].uop \in {"ENDLOOP", "ENDIF"} THEN {N[u].vin[1]} ELSE {}

lower_IF(st, N, u) ==
  LET x == N[u].vin[1]
      a == ssa_label(st, u, "if")
      p == cast(a.st, u, st.r[x], "bool", N[x].dtype, FALSE, u)
  IN kk(p.st, u, render_bra(a.out, p.out, Sfx(a.out, "_true")) \o <<LabelLine(Sfx(a.out, "_true"))>>)

\* ENDLOOP that compares the induction register with the start of the loop
lower_ENDLOOP_start(st, N, u) ==
  LET l == N[u].vin[1]
      a == ssa(st, 0, "pred", "pred")
      s1 == kk(a.st, u, <<asm_for_op("ADD", st.r[l], <<st.r[l], Lit(1)>>, "int", types("int")),
                          asm_for_op("CMPLT", a.out, <<st.r[l], st.r[N[l].vin[1]]>>, "int", types("int"))>>)
  IN kk(s1, u, render_bra(st.r_label[l], a.out, Sfx(st.r_label[l], "_exit"))
               \o <<LabelLine(Sfx(st.r_label[l], "_exit"))>>)

lower_ENDLOOP(st, N, u) ==
  LET l == N[u].vin[1]
      a == ssa(st, 0, "pred", "pred")
      s1 == kk(a.st, u, <<asm_for_op("ADD", st.r[l], <<st.r[l], Lit(1)>>, "int", types("int")),
                          asm_for_op("CMPLT", a.out, <<st.r[l], st.r[N[l].vin[2]]>>, "int", types("int"))>>)
  IN kk(s1, u, render_bra(st.r_label[l], a.out, Sfx(st.r_label[l], "_exit"))
               \o <<LabelLine(Sfx(st.r_label[l], "_exit"))>>)

lower_ENDIF(st, N, u) == kk(st, u, <<LabelLine(st.r_label[N[u].vin[1]])>>)

lower_STORE(st, N, u) ==
  LET v == N[u].vin
  IN kk(st, u, render_store(st.r[v[1]], st.r[v[3]], N[v[3]].dtype,
                            IF Len(v) > 3 THEN st.r[v[4]] ELSE NoOp, N[u].arg, N[v[2]].arg))

lower_LOOP(st, N, u) ==
  LET a == ssa(st, u, "ridx", types(N[u].dtype))
      b == ssa_label(a.st, u, "loop")
  IN kk(b.st, u, render_loop(a.out, st.r[N[u].vin[1]], b.out))

\* lines 163-165: every operand from i on gets a fresh single-precision register and a cast
RECURSIVE Upcast(_, _, _, _)
Upcast(st, u, ops, i) ==
  IF i > Len(ops) THEN [st |-> st, out |-> ops]
  ELSE LET a == ssa(st, 0, "alu_cast", types("float"))
       IN Upcast(kk(a.st, u, render_cast(a.out, ops[i], "float", "half", FALSE)),
                 u, [ops EXCEPT ![i] = a.out], i + 1)

lower_ALU(st, N, u) ==
  LET n == N[u]
      operands == [i \in 1..Len(n.vin) |-> st.r[n.vin[i]]]
      a == ssa(st, u, "alu", types(n.dtype))
      needs_upcast == n.dtype = "half" /\ n.arg \notin supports_half
      dtype == IF needs_upcast THEN "float" ELSE n.dtype
      b == ssa(a.st, 0, "alu_cast", types(dtype))
      up == Upcast(b.st, u, operands, 1)
      lab == IF needs_upcast THEN b.out ELSE a.out
      ops == IF needs_upcast THEN up.out ELSE operands
      s1 == IF needs_upcast THEN up.st ELSE a.st
      s2 == IF n.arg \in {"CMPLT", "CMPEQ"}
              THEN kk(s1, u, <<asm_for_op(n.arg, lab, ops, N[n.vin[1]].dtype, types(N[n.vin[1]].dtype))>>)
              ELSE kk(s1, u, <<asm_for_op(n.arg, lab, ops, dtype, types(dtype))>>)
  IN IF needs_upcast THEN kk(s2, u, render_cast(a.out, lab, "half", dtype, FALSE)) ELSE s2

lower_DEFINE_ACC(st, N, u) ==
  LET a == ssa(st, u, "acc", types(N[u].dtype))
      k == const(a.st, u, N[u].arg, N[u].dtype, FALSE)
  IN kk(k.st, u, <<Line("mov", Bits(types(N[u].dtype)), <<a.out, k.out>>)>>)

lower_SPECIAL(st, N, u) ==
  LET a == N[u].arg
      s1 == kk(st, u, <<Line("mov", "u32", <<NamedReg(a.name), Sym((IF a.g THEN gid ELSE lid)[a.axis + 1])>>)>>)
      s2 == SetR(s1, u, NamedReg(a.name))
  IN [s2 EXCEPT !.kernel = <<[u |-> u, lines |-> <<Line(".reg", "u32", <<NamedReg(a.name)>>)>>]>> \o @]

lower_CONST(st, N, u) ==
  LET k == const(st, u, N[u].arg, N[u].dtype, TRUE)
  IN SetR(k.st, u, k.out)

lower_LOAD(st, N, u) ==
  LET v == N[u].vin
      a == ssa(st, u, "val", types(N[u].dtype))
  IN IF ~render_load_ok(N[u].dtype) THEN [a.st EXCEPT !.err = "AssertionError"]
     ELSE kk(a.st, u, render_load(st.r[v[1]], a.out, N[u].dtype,
                                  IF Len(v) > 3 THEN st.r[v[3]] ELSE NoOp,
                                  IF Len(v) > 3 THEN st.r[v[4]] ELSE NoOp, N[u].arg, N[v[2]].arg))

lower_PHI(st, N, u) ==
  LET v == N[u].vin
  IN SetR(kk(st, u, <<Line("mov", Bits(types(N[u].dtype)), <<st.r[v[1]], st.r[v[2]]>>)>>), u, st.r[v[1]])

lower_CAST(st, N, u) ==
  cast(st, u, st.r[N[u].vin[1]], N[u].dtype, N[N[u].vin[1]].dtype, N[u].uop = "BITCAST", u).st

lower_DEFINE_LOCAL(st, N, u) ==
  IF N[u].arg.size * itemsize(N[u].dtype) > LocalCeiling THEN [st EXCEPT !.err = "AssertionError"]
  ELSE LET a == ssa(st, u, "local", types("uint64"))
       IN kk(a.st, u, render_local(a.out, N[u].arg.name, N[u].arg.size, N[u].dtype))

\* PTXLanguage.load_global
load_global == TRUE

\* DEFINE_VAR and DEFINE_GLOBAL (dt: the type the parameter is loaded as)
lower_DEFINE(st, N, u) ==
  LET name == N[u].arg.name
      dt == IF N[u].uop = "DEFINE_GLOBAL" /\ IsPtr(N[u].dtype) THEN "uint64" ELSE N[u].dtype
      s1 == SetR([st EXCEPT !.bufs = Append(@, [name |-> name, dtype |-> N[u].dtype])], u, NamedReg(name))
      a == ssa(s1, u, "dat", types(dt))
  IN IF ~load_global THEN s1
     ELSE IF ~render_load_ok(dt) THEN [a.st EXCEPT !.err = "AssertionError"]
     ELSE kk(a.st, u, render_load(Sym(name), a.out, dt, NoOp, NoOp, ".param", 0))

\* the body of the lowering loop for u (lines 135-219)
lower(st, N, u) ==
  LET uop == N[u].uop
  IN IF ~(Reads(N, u) \subseteq DOMAIN st.r /\ LabelReads(N, u) \subseteq DOMAIN st.r_label)
       THEN [st EXCEPT !.err = "KeyError"]
     ELSE CASE uop = "IF" -> lower_IF(st, N, u)
            [] uop = "BARRIER" -> kk(st, u, <<Line("bar.sync", "", <<Lit(0)>>)>>)
            [] uop = "ENDLOOP" -> lower_ENDLOOP(st, N, u)
            [] uop = "ENDIF" -> lower_ENDIF(st, N, u)
            [] uop = "STORE" -> lower_STORE(st, N, u)
            [] uop = "LOOP" -> lower_LOOP(st, N, u)
            [] uop = "ALU" -> lower_ALU(st, N, u)
            [] uop = "DEFINE_ACC" -> lower_DEFINE_ACC(st, N, u)
            [] uop = "SPECIAL" -> lower_SPECIAL(st, N, u)
            [] uop = "CONST" -> lower_CONST(st, N, u)
            [] uop = "LOAD" -> lower_LOAD(st, N, u)
            [] uop = "PHI" -> lower_PHI(st, N, u)
            [] uop \in {"CAST", "BITCAST"} -> lower_CAST(st, N, u)
            [] uop = "DEFINE_LOCAL" -> lower_DEFINE_LOCAL(st, N, u)
            [] uop \in {"DEFINE_VAR", "DEFINE_GLOBAL"} -> lower_DEFINE(st, N, u)
            [] OTHER -> [st EXCEPT !.err = "NotImplementedError"]

\* ---------------------------------------------------------------- the input graph
\* The linearizer (upstream, not in this file) hands over a graph in which every
\* node comes after its operands: some leaves, then operation nodes.
DefGlobal(T) == UOp("DEFINE_GLOBAL", T, <<>>, [name |-> "data0"])
DefLocal(T) == UOp("DEFINE_LOCAL", T, <<>>, [name |-> "temp", size |-> 4])
DefVar == UOp("DEFINE_VAR", "int", <<>>, [name |-> "n"])
Special == UOp("SPECIAL", "int", <<>>, [axis |-> 0, name |-> "gidx0", g |-> TRUE])
Const(dt, v) == UOp("CONST", dt, <<>>, v)
Barrier == UOp("BARRIER", "", <<>>, "")

DefineAcc == UOp("DEFINE_ACC", "int", <<>>, 0)

Leaves ==
  {<<DefGlobal(T), Special, Const("int", 1), Const("bool", 1)>> : T \in PtrDTypes}
  \cup {<<DefLocal(T), Special, Const(Base(T), 1), Barrier>> : T \in PtrDTypes}
  \cup {<<DefVar, Const("int", 0), DefineAcc, Const("half", 1)>>}

Of(N, dts) == {i \in 1..Len(N) : N[i].dtype \in dts}
Uop(N, us) == {i \in 1..Len(N) : N[i].uop \in us}
Last(S) == {i \in S : \A j \in S : j <= i}
\* the IF and LOOP nodes with no ENDIF or ENDLOOP yet
Open(N, us) == {i \in Uop(N, us) : \A j \in Uop(N, {"ENDIF", "ENDLOOP"}) : N[j].vin[1] # i}

\* the operation nodes the linearizer may append to the nodes N
Candidates(N) ==
  LET B == Of(N, PtrDTypes)
      I == Of(N, {"int"})
      P == Of(N, {"bool"})
      H == Of(N, {"half"})
      V(b) == Of(N, {Base(N[b].dtype)})
      Bar == Uop(N, {"BARRIER"})
      Acc == Uop(N, {"DEFINE_ACC"})
  IN {UOp("LOAD", Base(N[b].dtype), <<b, i>>, "") : b \in B, i \in I}
     \cup {UOp("LOAD", Base(N[b].dtype), <<b, i, x>>, "") : b \in B, i \in I, x \in Bar}
     \cup UNION {{UOp("LOAD", Base(N[b].dtype), <<b, i, g, a>>, "") : i \in I, g \in P, a \in Last(V(b))} : b \in B}
     \cup UNION {{UOp("STORE", "", <<b, i, v>>, "") : i \in I, v \in V(b)} : b \in B}
     \cup UNION {{UOp("STORE", "", <<b, i, v, g>>, "") : i \in I, v \in Last(V(b)), g \in P} : b \in B}
     \cup UNION {{UOp("ALU", "bool", <<x, y>>, "CMPEQ") : y \in {z \in P : z >= x}} : x \in P}
     \cup UNION {{UOp("ALU", "bool", <<x, y>>, "CMPLT") : y \in {z \in P : z <= x}} : x \in P}
     \cup {UOp("ALU", "bool", <<x, x>>, "CMPLT") : x \in Last(I)}
     \cup {UOp("CAST", "int", <<x>>, "") : x \in Last(P)}
     \cup {UOp("ALU", "half", <<x, y>>, op) : x \in H, y \in Last(H), op \in {"ADD", "DIV"}}
     \cup {UOp("IF", "", <<x, y>>, "") : x \in Last(P) \cup Last(I), y \in Bar}
     \cup {UOp("ENDIF", "", <<x>>, "") : x \in Last(Open(N, {"IF"}))}
     \cup {UOp("LOOP", "int", <<x, y>>, "") : x \in Uop(N, {"CONST"}) \cap I, y \in Uop(N, {"DEFINE_VAR"}), a \in Acc}
     \cup {UOp("ALU", "int", <<a, x>>, "ADD") : a \in Acc, x \in Open(N, {"LOOP"})}
     \cup {UOp("PHI", "int", <<a, x, l>>, "") : a \in Acc, x \in Last(Uop(N, {"ALU"})), l \in Open(N, {"LOOP"})}
     \cup {UOp("ENDLOOP", "", <<x>>, "") : x \in Last(Open(N, {"LOOP"}))}

\* ---------------------------------------------------------------- actions
NoHist == [g0 |-> [nodes |-> <<>>, uops |-> <<>>], visited |-> <<>>, by |-> <<>>,
           names |-> <<>>, rlog |-> <<>>]
NoMach == [ip |-> 0, regs |-> <<>>, mem |-> <<>>, stlog |-> <<>>, trace |-> <<>>, arg |-> 0]

InitWith(L) ==
  /\ nodes \in L
  /\ uops = [i \in 1..Len(nodes) |-> i]
  /\ pc = "build" /\ run = 0 /\ it = 0
  /\ seen = {} /\ replace = <<>> /\ kernel = <<>> /\ bufs = <<>>
  /\ c = <<>> /\ r = <<>> /\ c_label = <<>> /\ r_label = <<>>
  /\ err = "" /\ out = <<>> /\ hist = NoHist /\ mach = NoMach

Init == InitWith(Leaves)

\* the linearizer appends one more node (UOpGraph.add without insert_before)
Linearize ==
  /\ pc = "build"
  /\ Len(nodes) - Cardinality(Uop(nodes, {"DEFINE_GLOBAL", "DEFINE_LOCAL", "DEFINE_VAR", "SPECIAL",
                                          "CONST", "BARRIER"})) < MaxOps
  /\ \E n \in Candidates(nodes) :
       /\ nodes' = Append(nodes, n)
       /\ uops' = Append(uops, Len(nodes) + 1)
  /\ UNCHANGED <<pc, run, it, seen, replace, kernel, bufs, c, r, c_label, r_label, err, out, hist, mach>>

\* uops_to_asm is entered (lines 42-44, 92-93)
Enter ==
  /\ run' = run + 1
  /\ pc' = "sweep" /\ it' = 0
  /\ kernel' = <<>> /\ bufs' = <<>> /\ replace' = <<>> /\ seen' = {}
  /\ c' = <<>> /\ r' = <<>> /\ c_label' = <<>> /\ r_label' = <<>>
  /\ hist' = [NoHist EXCEPT !.g0 = [nodes |-> nodes, uops |-> uops]]
  /\ UNCHANGED <<nodes, uops, err, out, mach>>

Invoke == pc = "build" /\ Enter

\* a second invocation on the same UOpGraph object
Reinvoke == pc = "done" /\ run = 1 /\ Enter

\* one iteration of the pre-transform sweep (lines 94-100)
SweepStep ==
  /\ pc = "sweep" /\ it < Len(uops)
  /\ it' = it + 1
  /\ LET u == uops[it + 1]
         vin == Substituted(nodes, u, replace)
         g == [nodes |-> [nodes EXCEPT ![u].vin = vin], uops |-> uops, by |-> hist.by]
         rw == rewrite(g, u)
     IN IF u \in seen
          THEN UNCHANGED <<nodes, uops, seen, replace, hist>>
          ELSE /\ seen' = seen \cup {u}
               /\ nodes' = rw.g.nodes
               /\ uops' = rw.g.uops
               /\ replace' = IF rw.ret # 0 THEN Append(replace, <<u, rw.ret>>) ELSE replace
               /\ hist' = [hist EXCEPT !.by = rw.g.by,
                                       !.visited = Append(@, [u |-> u, vin |-> vin, rule |-> MatchRule(g, u),
                                                              keys |-> {replace[i][1] : i \in 1..Len(replace)}])]
  /\ UNCHANGED <<pc, run, kernel, bufs, c, r, c_label, r_label, err, out, mach>>

\* the sweep is over; the tables of the lowering are created (lines 102-133)
SweepDone ==
  /\ pc = "sweep" /\ it >= Len(uops)
  /\ pc' = "lower" /\ it' = 0
  /\ c' = <<>> /\ r' = <<>> /\ c_label' = <<>> /\ r_label' = <<>>
  /\ UNCHANGED <<nodes, uops, run, seen, replace, kernel, bufs, err, out, hist, mach>>

\* one iteration of the lowering loop (lines 134-219)
LowerStep ==
  /\ pc = "lower" /\ it < Len(uops)
  /\ LET st == lower([kernel |-> kernel, bufs |-> bufs, c |-> c, r |-> r, c_label |-> c_label,
                      r_label |-> r_label, err |-> "", names |-> hist.names, rlog |-> hist.rlog],
                     nodes, uops[it + 1])
     IN /\ kernel' = st.kernel /\ bufs' = st.bufs /\ c' = st.c /\ r' = st.r
        /\ c_label' = st.c_label /\ r_label' = st.r_label
        /\ hist' = [hist EXCEPT !.names = st.names, !.rlog = st.rlog]
        /\ err' = st.err
        /\ pc' = IF st.err = "" THEN "lower" ELSE "fail"
        /\ it' = IF st.err = "" THEN it + 1 ELSE it
  /\ UNCHANGED <<nodes, uops, run, seen, replace, out, mach>>

\* return lang.render_kernel(kernel, function_name, bufs, c.items()) (line 221)
Return ==
  /\ pc = "lower" /\ it >= Len(uops)
  /\ out' = Append(out, render_kernel(kernel, bufs, c))
  /\ pc' = "done"
  /\ UNCHANGED <<nodes, uops, run, it, seen, replace, kernel, bufs, c, r, c_label, r_label, err, hist, mach>>

\* ---------------------------------------------------------------- running the kernel
\* One thread (group 0, thread 0) runs the returned text.  The buffer data0 sits at
\* global address 0 and the shared array at shared address 0; memory reads as 0
\* until it is written; the scalar parameter n has the value mach.arg.
Text == out[Len(out)].lines

Defined(m, o) == o.k \in {"imm", "sym"} \/ o \in DOMAIN m.regs
Val(m, o) == IF o.k = "imm" THEN o.n ELSE IF o.k = "sym" THEN 0 ELSE m.regs[o]
Param(m, name) == IF name = "n" THEN m.arg ELSE 0
Load(m, a) == IF a \in DOMAIN m.mem THEN m.mem[a] ELSE 0

\* the operands whose value the line reads
Sources(l) ==
  (IF l.g # NoOp THEN {l.g} ELSE {})
  \cup CASE l.op \in {"label", ".reg", ".shared", "bar.sync", "ret", "bra"} -> {}
         [] l.op = "ld" -> IF l.ss = ".param" THEN {} ELSE {l.a[2]}
         [] l.op = "st" -> {l.a[1], l.a[3]}
         [] OTHER -> {l.a[i] : i \in 2..Len(l.a)}

\* the 1-based positions of the label lines for the target of a bra
Targets(text, lab) == {i \in 1..Len(text) : text[i] = LabelLine(lab)}

\* the value an instruction writes to its destination (asm_for_op, render_const,
\* render_cast, render_loop, render_load templates)
Result(m, l) ==
  LET x(i) == Val(m, l.a[i])
  IN CASE l.op = "mov" -> x(2)
       [] l.op = "setp.ne" -> x(2) # x(3)
       [] l.op = "setp.lt" -> x(2) < x(3)
       [] l.op = "setp.eq" -> x(2) = x(3)
       [] l.op = "add" -> x(2) + x(3)
       [] l.op = "sub" -> x(2) - x(3)
       [] l.op \in {"mul", "mul.lo"} -> x(2) * x(3)
       [] l.op = "or" -> x(2) \/ x(3)
       [] l.op = "and" -> x(2) /\ x(3)
       [] l.op = "xor" -> x(2) # x(3)
       [] l.op = "not" -> ~x(2)
       [] l.op = "neg" -> 0 - x(2)
       [] l.op = "selp" -> IF x(4) THEN x(2) ELSE x(3)
       [] l.op = "ld" -> IF l.ss = ".param" THEN Param(m, l.a[2].cat) ELSE Load(m, <<l.ss, x(2) + l.a[3].n>>)
       [] OTHER -> x(2)

\* one instruction; ip = -1: ret was executed, ip = -2: the run is not followed further
\* (a register read before it was written, or a branch to a label that is not there once)
Step(m, text) ==
  LET l == text[m.ip]
      on == l.g = NoOp \/ (Val(m, l.g) # l.gneg)
      m1 == [m EXCEPT !.trace = Append(@, m.ip)]
      next == [m1 EXCEPT !.ip = @ + 1]
  IN IF \E o \in Sources(l) : ~Defined(m, o) THEN [m EXCEPT !.ip = -2]
     ELSE IF ~on \/ l.op \in {"label", ".reg", ".shared", "bar.sync"} THEN next
     ELSE IF l.op = "ret" THEN [m1 EXCEPT !.ip = -1]
     ELSE IF l.op = "bra"
       THEN IF Cardinality(Targets(text, l.a[1])) = 1
              THEN [m1 EXCEPT !.ip = CHOOSE i \in Targets(text, l.a[1]) : TRUE]
              ELSE [m EXCEPT !.ip = -2]
     ELSE IF l.op = "st"
       THEN LET a == <<l.ss, Val(m, l.a[1]) + l.a[2].n>>
            IN [next EXCEPT !.mem = Put(@, a, Val(m, l.a[3])),
                            !.stlog = Append(@, [at |-> m.ip, addr |-> a, val |-> Val(m, l.a[3])])]
     ELSE [next EXCEPT !.regs = Put(@, l.a[1], Result(m, l))]

\* Owners[i]: the uop whose lowering emitted line i of the returned text (0: render_kernel)
Owners ==
  [i \in 1..Len(c) |-> 0] \o Flatten([i \in 1..Len(kernel) |-> [j \in 1..Len(kernel[i].lines) |-> kernel[i].u]]) \o <<0>>

\* the kernel is launched with a value for the scalar parameter
Launch ==
  /\ pc = "done"
  /\ \E v \in 0..MaxVal : mach' = [NoMach EXCEPT !.ip = 1, !.arg = v]
  /\ pc' = "exec"
  /\ UNCHANGED <<nodes, uops, run, it, seen, replace, kernel, bufs, c, r, c_label, r_label, err, out, hist>>

ExecStep ==
  /\ pc = "exec"
  /\ mach' = Step(mach, Text)
  /\ pc' = IF mach'.ip = -1 THEN "halt" ELSE IF mach'.ip = -2 THEN "fault" ELSE "exec"
  /\ UNCHANGED <<nodes, uops, run, it, seen, replace, kernel, bufs, c, r, c_label, r_label, err, out, hist>>

Next == Linearize \/ Invoke \/ SweepStep \/ SweepDone \/ LowerStep \/ Return

Spec == Init /\ [][Next]_vars

\* two successive invocations on one graph
NextTwice == Next \/ Reinvoke

SpecTwice == Init /\ [][NextTwice]_vars

\* ---------------------------------------------------------------- kernels that are run
\* data0[0] = 1 under IF(cond), then data0[1] = 1
IfProgram(dt, cv) ==
  <<DefGlobal("ptr_int"), Const("int", 0), Const("int", 1), Const(dt, cv), Barrier,
    UOp("IF", "", <<4, 5>>, ""), UOp("STORE", "", <<1, 2, 3>>, ""), UOp("ENDIF", "", <<6>>, ""),
    UOp("STORE", "", <<1, 3, 3>>, "")>>

\* IF(c1) { data0[0] = 1; IF(c2) { data0[1] = 1 } }
NestedIfProgram(c1, c2) ==
  <<DefGlobal("ptr_int"), Const("int", 0), Const("int", 1), Const("bool", c1), Const("bool", c2), Barrier,
    UOp("IF", "", <<4, 6>>, ""), UOp("STORE", "", <<1, 2, 3>>, ""),
    UOp("IF", "", <<5, 6>>, ""), UOp("STORE", "", <<1, 3, 3>>, ""), UOp("ENDIF", "", <<9>>, ""),
    UOp("ENDIF", "", <<7>>, "")>>

\* for i in range(s, b): data0[i] = i; then data0[s] = s.  The bound is the
\* constant b, or the scalar parameter n.
LoopProgram(s, b, var) ==
  <<DefGlobal("ptr_int"), DefVar, Const("int", s), Const("int", b),
    UOp("LOOP", "int", <<3, IF var THEN 2 ELSE 4>>, ""), UOp("STORE", "", <<1, 5, 5>>, ""),
    UOp("ENDLOOP", "", <<5>>, ""), UOp("STORE", "", <<1, 3, 3>>, "")>>

Programs ==
  {IfProgram("bool", cv) : cv \in 0..1} \cup {IfProgram("int", cv) : cv \in 0..MaxVal}
  \cup {NestedIfProgram(c1, c2) : c1 \in 0..1, c2 \in 0..1}
  \cup {LoopProgram(s, b, var) : s \in 0..MaxVal, b \in 0..MaxVal, var \in BOOLEAN}

\* straight-line kernels on two boolean constants a and b
BoolLeaves == {<<DefGlobal("ptr_bool"), Const("int", 0), Const("bool", a), Const("bool", b)>> : a \in 0..1, b \in 0..1}

BoolCandidates(N) ==
  LET B == Of(N, PtrDTypes)
      I == Of(N, {"int"}) \cap Uop(N, {"CONST"})
      P == Of(N, {"bool"})
  IN {UOp("ALU", "bool", <<x, y>>, "CMPEQ") : x \in P, y \in Last(P)}
     \cup {UOp("ALU", "bool", <<x, y>>, "CMPLT") : x \in Last(P), y \in P}
     \cup {UOp("STORE", "", <<b, i, v>>, "") : b \in B, i \in I, v \in Last(P)}
     \cup {UOp("STORE", "", <<b, i, 3, g>>, "") : b \in B, i \in I, g \in Last(P)}
     \cup {UOp("LOAD", "bool", <<b, i>>, "") : b \in B, i \in I}
     \cup {UOp("LOAD", "bool", <<b, i, g, a>>, "") : b \in B, i \in I, g \in Last(P), a \in Last(P)}
     \cup {UOp("CAST", "int", <<x>>, "") : x \in Last(P)}

LinearizeBool ==
  /\ pc = "build"
  /\ nodes[1].dtype = "ptr_bool"
  /\ Len(nodes) - 4 < MaxOps
  /\ \E n \in BoolCandidates(nodes) :
       /\ nodes' = Append(nodes, n)
       /\ uops' = Append(uops, Len(nodes) + 1)
  /\ UNCHANGED <<pc, run, it, seen, replace, kernel, bufs, c, r, c_label, r_label, err, out, hist, mach>>

InitExec == InitWith(Programs \cup BoolLeaves)

NextExec == LinearizeBool \/ Invoke \/ SweepStep \/ SweepDone \/ LowerStep \/ Return \/ Launch \/ ExecStep

SpecExec == InitExec /\ [][NextExec]_vars

\* ---------------------------------------------------------------- properties
Orig == 1..Len(hist.g0.nodes)
Swept == pc \in {"lower", "done", "fail", "exec", "halt", "fault"}
Visited == [i \in 1..Len(hist.visited) |-> hist.visited[i].u]
IsOrig(x) == x \in Orig
Count2(q, T(_)) == Cardinality({i \in 1..Len(q) : T(q[i])})
\* the visit of the sweep to node u
VisitOf(u) == hist.visited[CHOOSE i \in 1..Len(hist.visited) : hist.visited[i].u = u]

\* C1: two successive invocations of uops_to_asm on one graph return the same text.
C1_Deterministic == Len(out) = 2 => out[1] = out[2]

\* C2: every name ssa returns is distinct from all it returned before, and the count
\* render_kernel declares for each register group is the number of distinct names
\* allocated in that group.
C2_RegisterUniqueness ==
  /\ \A i, j \in 1..Len(hist.names) : i # j => hist.names[i] # hist.names[j]
  /\ pc = "done" =>
       LET decl == {l.a[1] : l \in {x \in Range(Text) : x.op = ".reg" /\ x.a[1].k = "regs"}}
       IN /\ \A d \in decl :
               d.n = Cardinality({x \in Range(hist.names) : x.cat = d.cat /\ x.ty = d.ty})
          /\ \A x \in Range(hist.names) : \E d \in decl : x.cat = d.cat /\ x.ty = d.ty

C2_Witness ==
  /\ pc = "done"
  /\ \E i, j \in 1..Len(hist.names) :
       i # j /\ hist.names[i].cat = hist.names[j].cat /\ hist.names[i].ty = hist.names[j].ty
  /\ Len(c) >= 4

\* C4 as stated: for every LOAD/STORE, a constant index is folded into the node
\* (offset = index * element size) and the rewrite makes the lowering emit nothing;
\* otherwise the nodes the rewrite inserts make it emit exactly one multiply (only
\* if the element size is > 1), one cast to 64 bits and one add, and nothing else.
C4_PointerArithmetic ==
  pc = "done" =>
    \A root \in {x \in Orig : hist.g0.nodes[x].uop \in {"LOAD", "STORE"}} :
      LET size == itemsize(nodes[hist.g0.nodes[root].vin[1]].dtype)
          idx == VisitOf(root).vin[2]
          ins == {x \in DOMAIN hist.by : hist.by[x] = [rule |-> "ptr_ar", root |-> root]}
          em == Flatten([i \in 1..Len(kernel) |-> IF kernel[i].u \in ins THEN kernel[i].lines ELSE <<>>])
          off == nodes[nodes[root].vin[2]]
          IsMul(l) == l.op \in {"mul", "mul.lo"}
          IsCvt(l) == l.op = "cvt" /\ l.ty = "u64"
          IsAdd(l) == l.op = "add"
      IN IF nodes[idx].uop = "CONST"
           THEN off.uop = "CONST" /\ off.arg = nodes[idx].arg * size /\ em = <<>>
           ELSE /\ Count2(em, IsMul) = (IF size > 1 THEN 1 ELSE 0)
                /\ Count2(em, IsCvt) = 1
                /\ Count2(em, IsAdd) = 1
                /\ Len(em) = Count2(em, IsMul) + 2

\* C5 as stated: after the sweep no LOAD has a boolean result type, so render_load
\* is never called with a boolean type.
C5_NoBooleanLoad ==
  /\ Swept => \A i \in 1..Len(nodes) : nodes[i].uop = "LOAD" => nodes[i].dtype # "bool"
  /\ err # "AssertionError"

\* C6: the pre-transform keeps every node after all of its operands, and the
\* lowering reads no entry of r (or of r_label) that is not there yet.
C6_OperandsBound ==
  /\ \A p \in 1..Len(uops) : \A x \in Range(nodes[uops[p]].vin) : \E q \in 1..(p - 1) : uops[q] = x
  /\ (pc = "lower" /\ it < Len(uops)) => Reads(nodes, uops[it + 1]) \subseteq DOMAIN r
  /\ err # "KeyError"

C6_Witness ==
  /\ pc = "done"
  /\ \E x \in DOMAIN hist.by : hist.by[x].rule = "gate_rep"
  /\ \E x \in DOMAIN hist.by : hist.by[x].rule = "ptr_ar" /\ nodes[x].uop = "ALU"

\* C7 as stated: every entry of r is assigned at most once.
C7_AssignedOnce ==
  \A i, j \in 1..Len(hist.rlog) : i < j => hist.rlog[i][1] # hist.rlog[j][1]

\* C8 as stated: the sweep offers every node of the original graph to the rules
\* once, in graph order, its replaced operands substituted first, and visits no
\* node a rewrite inserted.
C8_NoInsertedVisited ==
  /\ \A i \in 1..Len(hist.visited) :
       /\ Range(hist.visited[i].vin) \cap hist.visited[i].keys = {}
       /\ hist.visited[i].u \in Orig
  /\ Swept => Visited = hist.g0.uops

\* C8, amended: the sweep ends after at most 8 iterations per original node; it
\* offers every node of the original graph to the rules exactly once, in graph
\* order, its replaced operands substituted first; a node a rewrite inserted is
\* visited at most once, and matches no rule.
C8_SweepOrder ==
  LET vo == SelectSeq(Visited, IsOrig)
  IN /\ it <= Len(uops)
     /\ pc # "build" => Len(uops) <= 8 * Len(hist.g0.uops)
     /\ \A i, j \in 1..Len(Visited) : i # j => Visited[i] # Visited[j]
     /\ \A i \in 1..Len(hist.visited) :
          LET e == hist.visited[i]
          IN IF e.u \in Orig THEN Range(e.vin) \cap e.keys = {} ELSE e.rule = ""
     /\ Len(vo) <= Len(hist.g0.uops) /\ vo = SubSeq(hist.g0.uops, 1, Len(vo))
     /\ Swept => vo = hist.g0.uops

C8_Witness ==
  /\ pc = "lower"
  /\ \E i \in 1..Len(Visited) : Visited[i] \notin Orig
  /\ \E i \in 1..Len(hist.visited) : hist.visited[i].u \in Orig /\ hist.visited[i].vin # hist.g0.nodes[hist.visited[i].u].vin

\* the equality comparisons of the original graph whose first operand is boolean
EqRoots ==
  {u \in Orig : /\ hist.g0.nodes[u].uop = "ALU"
                /\ hist.g0.nodes[u].arg = "CMPEQ"
                /\ hist.g0.nodes[hist.g0.nodes[u].vin[1]].dtype = "bool"}
\* the node that follows u in the list
After(u) == uops[Index(uops, u) + 2]

\* C3: an equality comparison with a boolean first operand becomes XOR, a NEG node
\* of it is inserted right after it, every later reference to the comparison is
\* redirected to the NEG node (which alone keeps the XOR node as operand), and the
\* kernel computes not(a xor b) in the register of the NEG node.
C3_BooleanEquality ==
  Swept =>
    \A root \in EqRoots :
      /\ nodes[root].uop = "ALU" /\ nodes[root].arg = "XOR"
      /\ Index(uops, root) + 2 <= Len(uops)
      /\ After(root) \notin Orig
      /\ nodes[After(root)] = UOp("ALU", "bool", <<root>>, "NEG")
      /\ \A v \in 1..Len(nodes) : v # After(root) => root \notin Range(nodes[v].vin)
      /\ \A w \in Orig : \A k \in 1..Len(hist.g0.nodes[w].vin) :
           hist.g0.nodes[w].vin[k] = root => VisitOf(w).vin[k] = After(root)
      /\ pc = "halt" =>
           Val(mach, r[After(root)])
             = ~(Val(mach, r[nodes[root].vin[1]]) # Val(mach, r[nodes[root].vin[2]]))

C3_Witness ==
  /\ pc = "halt"
  /\ \E root \in EqRoots :
       /\ \E w \in Orig : root \in Range(hist.g0.nodes[w].vin) /\ hist.g0.nodes[w].uop = "STORE"
       /\ Val(mach, r[nodes[root].vin[1]]) # Val(mach, r[nodes[root].vin[2]])
       /\ ~Val(mach, r[After(root)])

IfNodes == {u \in 1..Len(nodes) : nodes[u].uop = "IF"}
Ran == Range(mach.trace)
\* the conditional branch of IF node f, and the lines between its two labels
BranchOf(f) == CHOOSE i \in 1..Len(Text) : Owners[i] = f /\ Text[i].op = "bra" /\ ~Text[i].gneg
TrueLabel(f) == CHOOSE i \in Targets(Text, Sfx(r_label[f], "_true")) : TRUE
EndLabel(f) == CHOOSE i \in Targets(Text, r_label[f]) : TRUE
IfBody(f) == (TrueLabel(f) + 1)..(EndLabel(f) - 1)

\* C9 as stated: every branch target is a label emitted exactly once; an IF that is
\* executed with a true predicate goes on to the instructions between IF and
\* ENDIF, and with a false predicate executes none of them.
C9_IfControlFlow ==
  pc = "halt" =>
    /\ \A i \in 1..Len(Text) : Text[i].op = "bra" => Cardinality(Targets(Text, Text[i].a[1])) = 1
    /\ \A f \in IfNodes :
         BranchOf(f) \in Ran =>
           IF Val(mach, Text[BranchOf(f)].g)
             THEN TrueLabel(f) + 1 \in Ran
             ELSE IfBody(f) \cap Ran = {}

\* a run that takes an IF with a true predicate
C9_Witness ==
  /\ pc = "halt"
  /\ \E f \in IfNodes : BranchOf(f) \in Ran /\ Val(mach, Text[BranchOf(f)].g) /\ IfBody(f) # {}

LoopNodes == {u \in 1..Len(nodes) : nodes[u].uop = "LOOP"}
EndOf(l) == CHOOSE e \in 1..Len(nodes) : nodes[e].uop = "ENDLOOP" /\ nodes[e].vin[1] = l
LoopLabel(l) == CHOOSE i \in Targets(Text, r_label[l]) : TRUE
ExitLabel(l) == CHOOSE i \in Targets(Text, Sfx(r_label[l], "_exit")) : TRUE
LoopBody(l) == {i \in 1..Len(Text) : i > LoopLabel(l) /\ Owners[i] # EndOf(l) /\ i < ExitLabel(l)}
\* the induction values the body has run for: the body of the kernels that are
\* run stores the induction register
BodyVals(l) ==
  LET q == SelectSeq(mach.stlog, LAMBDA e : e.at \in LoopBody(l))
  IN [k \in 1..Len(q) |-> q[k].val]
Start(l) == Val(mach, r[nodes[l].vin[1]])
Bound(l) == Val(mach, r[nodes[l].vin[2]])
Upto(s, n) == [k \in 1..n |-> s + k - 1]
IsPrefix(p, q) == Len(p) <= Len(q) /\ p = SubSeq(q, 1, Len(p))

\* C10 as stated: when the kernel has run, the body of a loop with start s and
\* bound b has run for s, s+1, ..., b-1 and for nothing else (not at all when
\* s >= b), and control has reached the exit label.
C10_LoopRange ==
  pc = "halt" =>
    \A l \in LoopNodes :
      /\ BodyVals(l) = Upto(Start(l), IF Start(l) < Bound(l) THEN Bound(l) - Start(l) ELSE 0)
      /\ ExitLabel(l) \in Ran

\* C10, amended: the body runs for s before the bound is first compared: for
\* s < b it runs for s, s+1, ..., b-1 and for nothing else, for s >= b (s below
\* the largest 32-bit value) it runs once, for s; in both cases the run never
\* leaves that sequence, and ends past the exit label.
C10_LoopDoWhile ==
  /\ pc # "fault"
  /\ pc \in {"exec", "halt"} =>
       \A l \in LoopNodes :
         LET n == IF Start(l) < Bound(l) THEN Bound(l) - Start(l) ELSE 1
         IN /\ BodyVals(l) # <<>> => IsPrefix(BodyVals(l), Upto(Start(l), n))
            /\ pc = "halt" => BodyVals(l) = Upto(Start(l), n) /\ ExitLabel(l) \in Ran

C10_Witness ==
  /\ pc = "halt"
  /\ \E l \in LoopNodes : Len(BodyVals(l)) >= 2 /\ nodes[nodes[l].vin[2]].uop = "DEFINE_VAR"
  /\ \E l \in LoopNodes : ExitLabel(l) \in Ran
====
